---- MODULE Spec2Model ----
(***************************************************************************)
(* Model of api/index.py: the checkout-session builder with its tiered     *)
(* platform fee, the session lookup and billing-portal passthroughs, and   *)
(* the webhook verification / dispatch handler.                            *)
(*                                                                         *)
(* Every request is served by a worker slot r \in Req.  A slot's fields    *)
(* are the handler's local variables; the only process-wide value is       *)
(* config.  Spec serves requests one at a time over the full input         *)
(* domain; SpecConc serves NumReq requests concurrently, interleaved at    *)
(* every step, over a small input domain.                                  *)
(*                                                                         *)
(* Prices: CartItem.price is a float in major units.  The model writes a   *)
(* price as an integer number of thousandths of a major unit (mills), so   *)
(* price * 100 is mills / 10 minor units and may have a fractional part.   *)
(* Printed lines are modelled by their label and value, without emoji.     *)
(***************************************************************************)
EXTENDS Integers, Sequences, FiniteSets, TLC

\* ---------------------------------------------------------------- bounds
MaxItems == 2
NumReq == 2

Req == 1..NumReq

\* Python's None, for the string-valued fields that may hold it
None == "None"

\* `if x:` on an Optional[str]: None and the empty string are both falsy
Truthy(s) == s # None /\ s # ""

\* ---------------------------------------------------------- configuration
\* module-level values read from the environment at import time
Config0 ==
  [ api_key               |-> "sk_test",
    ZARA_ACCOUNT_ID       |-> "acct_zara",
    FRONTEND_URL          |-> "http://localhost:5173",
    STRIPE_WEBHOOK_SECRET |-> "whsec_test" ]

\* ------------------------------------------------------------ fee schedule
\* variant: the tier bounds read as strict, so 10000 and 20000 fall in the upper tier
FeeStrictBounds(amount) ==
  IF amount < 10000 THEN 1000
  ELSE IF amount < 20000 THEN 1500
  ELSE 2000

calculate_platform_fee(amount) ==
  IF amount <= 10000 THEN 1000
  ELSE IF amount <= 20000 THEN 1500
  ELSE 2000

\* ------------------------------------------------------- price conversion
\* int(x) on a float truncates toward zero; x = n / d with d > 0
IntTrunc(n, d) == IF n >= 0 THEN n \div d ELSE -((-n) \div d)

\* int(item.price * 100), the price given in mills
UnitAmount(price) == IntTrunc(price, 10)

\* round-half-up of price * 100, the conversion the design document names
RoundUnitAmount(price) ==
  IF price >= 0 THEN (price + 5) \div 10 ELSE -((-price + 5) \div 10)

\* one element of line_items
LineItem(item) ==
  [ price_data |->
      [ currency     |-> "usd",
        product_data |->
          [ name   |-> item.name,
            images |-> IF Truthy(item.image) THEN <<item.image>> ELSE <<>> ],
        unit_amount  |-> UnitAmount(item.price) ],
    quantity |-> item.quantity ]

\* variant: one accumulator shared by every request in flight
AddToAllTotals(tot, r, amt) == [q \in DOMAIN tot |-> tot[q] + amt]

\* total_amount += unit_amount * quantity, on the request's own local
AddToTotal(tot, r, amt) == [tot EXCEPT ![r] = @ + amt]

\* --------------------------------------------------------- session request
\* variant: customer_creation is set whether or not a customer is attached
CustomerBoth(customer_id) ==
  IF customer_id # None
    THEN ("customer" :> customer_id) @@ ("customer_creation" :> "always")
    ELSE ("customer_creation" :> "always")

\* if data.customer_id: session_args['customer'] = ... else customer_creation
CustomerMode(customer_id) ==
  IF Truthy(customer_id)
    THEN ("customer" :> customer_id)
    ELSE ("customer_creation" :> "always")

SessionArgs(items, fee, customer_id, cfg) ==
  [ payment_method_types |-> <<"card">>,
    line_items           |-> items,
    mode                 |-> "payment",
    invoice_creation     |-> [enabled |-> TRUE],
    payment_intent_data  |->
      [ application_fee_amount |-> fee,
        transfer_data          |-> [destination |-> cfg.ZARA_ACCOUNT_ID] ],
    success_url          |-> <<cfg.FRONTEND_URL, "/success?session_id={CHECKOUT_SESSION_ID}">>,
    cancel_url           |-> <<cfg.FRONTEND_URL, "/">> ]
  @@ CustomerMode(customer_id)

\* ------------------------------------------------------- HTTP responses
NoResponse == [status |-> 0, body |-> [none |-> TRUE]]

Ok(body) == [status |-> 200, body |-> body]

\* str(e) of a processor exception is its message
Str(e) == e.msg

\* variant: the 400 drops the message of the exception
BadRequestGeneric(e) == [status |-> 400, body |-> [detail |-> "Bad Request"]]

\* except Exception as e: raise HTTPException(status_code=400, detail=str(e))
BadRequest(e) == [status |-> 400, body |-> [detail |-> Str(e)]]

\* an exception no handler catches: the framework answers 500
ServerError == [status |-> 500, body |-> [detail |-> "Internal Server Error"]]

\* ------------------------------------------------------ processor results
\* what a call to the payment processor hands back: a session, or an exception
NoResult == [ok |-> FALSE, id |-> None, url |-> None, customer |-> None, msg |-> None]

Raised(m) == [ok |-> FALSE, id |-> None, url |-> None, customer |-> None, msg |-> m]

Session(id, url, customer) ==
  [ok |-> TRUE, id |-> id, url |-> url, customer |-> customer, msg |-> None]

ErrorMessages == {"No such customer", "Invalid request"}

\* the exception object a failed call raises
ExcOf(res) == [type |-> "StripeError", msg |-> res.msg]

\* ------------------------------------------------------------ request inputs
Catalog ==
  { [name |-> "sticker", price |-> 500,    image |-> None],
    [name |-> "pen",     price |-> 1999,   image |-> None],
    [name |-> "shirt",   price |-> 50000,  image |-> "img_shirt"],
    [name |-> "jacket",  price |-> 100000, image |-> "img_jacket"],
    [name |-> "coat",    price |-> 150000, image |-> ""],
    [name |-> "suit",    price |-> 250000, image |-> "img_suit"],
    [name |-> "credit",  price |-> -1999,  image |-> None] }

Quantities == {1, 2}

CartItems ==
  { [name |-> p.name, price |-> p.price, quantity |-> q, image |-> p.image] :
      p \in Catalog, q \in Quantities }

Carts == UNION { [1..n -> CartItems] : n \in 0..MaxItems }

CustomerIds == {None, "", "cus_1"}

CheckoutRequests == [items : Carts, customer_id : CustomerIds]

LookupRequests == [sessionId : {"cs_test_1", "cs_unknown"}]

PortalRequests == [customer_id : {"cus_1", "cus_unknown"}]

\* ------------------------------------------------------------ webhook inputs
HandledTypes ==
  { "checkout.session.completed", "payment_intent.succeeded", "charge.succeeded",
    "transfer.created", "transfer.paid" }

EventTypes == HandledTypes \cup {"transfer.updated", "customer.created"}

\* the keys event["data"]["object"] may carry, each with one value
ObjKeys == {"id", "amount", "currency", "destination", "customer"}

ObjValue(k) ==
  CASE k = "id"          -> "obj_1"
    [] k = "amount"      -> "15000"
    [] k = "currency"    -> "usd"
    [] k = "destination" -> "acct_zara"
    [] OTHER             -> "cus_1"

Objects == { [k \in S |-> ObjValue(k)] : S \in SUBSET ObjKeys }

\* a parsed event; "account" is present only on connected-account events
Events ==
  { [type |-> t, data |-> [object |-> o]] @@ a :
      t \in EventTypes, o \in Objects,
      a \in { <<>>, ("account" :> "acct_zara") } }

NoEvent == [none |-> TRUE]

\* The raw delivery: what the body bytes are, what the stripe-signature header
\* holds (None: no header), and the event a JSON body parses to.
\*   body "undecodable": not UTF-8;  "unparseable": UTF-8 but not JSON (or empty)
SigHeaders == {"match", "mismatch", None}

Deliveries(evts) ==
  [body : {"undecodable", "unparseable"}, sig_header : SigHeaders, event : {NoEvent}]
    \cup [body : {"json"}, sig_header : SigHeaders, event : evts]

\* stripe.Webhook.construct_event(payload, sig_header, endpoint_secret): decodes
\* the bytes, verifies the header against the secret, then parses the JSON; a
\* failed decode or parse is a ValueError, a failed verification a
\* SignatureVerificationError.
construct_event(payload, sig_header, endpoint_secret) ==
  IF payload.body = "undecodable" THEN [exc |-> "ValueError", event |-> NoEvent]
  ELSE IF sig_header # "match"
    THEN [exc |-> "SignatureVerificationError", event |-> NoEvent]
  ELSE IF payload.body = "unparseable" THEN [exc |-> "ValueError", event |-> NoEvent]
  ELSE [exc |-> None, event |-> payload.event]

\* variant: the two except clauses carry each other's detail
VerifyErrorSwapped(exc) ==
  IF exc = "ValueError" THEN "Invalid signature" ELSE "Invalid payload"

\* the two except clauses: the detail (and printed reason) of the 400
VerifyErrorDetail(exc) ==
  IF exc = "ValueError" THEN "Invalid payload" ELSE "Invalid signature"

\* event.get(key, default) / obj.get(key)
Get(obj, key, default) == IF key \in DOMAIN obj THEN obj[key] ELSE default

\* --------------------------------------------------------------- handlers
\* Each branch of the if/elif chain as the list of its print statements:
\* "lit" prints a fixed line, "sub" prints obj[key] (KeyError when the key is
\* missing), "get" prints obj.get(key) (None when missing).
P(mode, label, key) == [mode |-> mode, label |-> label, key |-> key]

HandlerBody(h) ==
  CASE h = "checkout.session.completed" ->
         << P("lit", "Checkout Session Completed", None),
            P("sub", "Session ID", "id"),
            P("get", "Customer ID", "customer"),
            P("get", "Amount Total", "amount_total"),
            P("get", "Payment Intent", "payment_intent") >>
    [] h = "payment_intent.succeeded" ->
         << P("lit", "Payment Intent Succeeded", None),
            P("sub", "PaymentIntent ID", "id"),
            P("sub", "Amount", "amount"),
            P("sub", "Currency", "currency"),
            P("get", "Customer", "customer") >>
    [] h = "charge.succeeded" ->
         << P("lit", "Charge Succeeded", None),
            P("sub", "Charge ID", "id"),
            P("sub", "Amount", "amount"),
            P("get", "Transfer", "transfer") >>
    [] h = "transfer.created" ->
         << P("lit", "Transfer Created to Connected Account", None),
            P("sub", "Transfer ID", "id"),
            P("sub", "Amount", "amount"),
            P("sub", "Destination", "destination") >>
    [] h = "transfer.paid" ->
         << P("lit", "Transfer Paid", None),
            P("sub", "Transfer ID", "id"),
            P("sub", "Amount", "amount") >>
    [] OTHER -> << >>

\* variant: transfer.paid falls into the transfer.created branch
BranchPaidAsCreated(type) ==
  IF type = "transfer.paid" THEN "transfer.created"
  ELSE IF type \in HandledTypes THEN type ELSE "unhandled"

\* the if/elif chain on event["type"]: which branch runs
Branch(type) == IF type \in HandledTypes THEN type ELSE "unhandled"

\* run the print statements prog[i..] on obj: the lines printed, and whether a
\* KeyError ended the run
RECURSIVE RunPrints(_, _, _)
RunPrints(obj, prog, i) ==
  IF i > Len(prog) THEN [lines |-> <<>>, raised |-> FALSE]
  ELSE LET p == prog[i] IN
    IF p.mode = "sub" /\ p.key \notin DOMAIN obj
      THEN [lines |-> <<>>, raised |-> TRUE]
    ELSE LET line == IF p.mode = "lit" THEN <<p.label>>
                     ELSE <<p.label, Get(obj, p.key, None)>>
             rest == RunPrints(obj, prog, i + 1)
         IN [lines |-> <<line>> \o rest.lines, raised |-> rest.raised]

\* the whole dispatch step on a verified event
RunBranch(evt) ==
  LET b == Branch(evt.type) IN
    IF b = "unhandled"
      THEN [lines |-> << <<"Unhandled event type", evt.type>> >>, raised |-> FALSE]
      ELSE RunPrints(evt.data.object, HandlerBody(b), 1)

\* ------------------------------------------------------------------ state
VARIABLES
  config,             \* process-wide configuration, set at import
  pc,                 \* where each request's handler stands
  kind,               \* which endpoint the request is for
  data,               \* the request as received
  line_items,         \* create_checkout_session: line_items
  total_amount,       \* create_checkout_session: total_amount
  event,              \* stripe_webhook: event
  connected_account,  \* stripe_webhook: connected_account
  outbox,             \* the processor calls the request has made
  result,             \* what the processor handed back
  response,           \* the HTTP response
  log,                \* the lines the request printed
  trace               \* the phases the request went through

vars ==
  << config, pc, kind, data, line_items, total_amount, event, connected_account,
     outbox, result, response, log, trace >>

NoData == [none |-> TRUE]

Init ==
  /\ config = Config0
  /\ pc = [r \in Req |-> "idle"]
  /\ kind = [r \in Req |-> "none"]
  /\ data = [r \in Req |-> NoData]
  /\ line_items = [r \in Req |-> <<>>]
  /\ total_amount = [r \in Req |-> 0]
  /\ event = [r \in Req |-> NoEvent]
  /\ connected_account = [r \in Req |-> None]
  /\ outbox = [r \in Req |-> <<>>]
  /\ result = [r \in Req |-> NoResult]
  /\ response = [r \in Req |-> NoResponse]
  /\ log = [r \in Req |-> <<>>]
  /\ trace = [r \in Req |-> <<>>]

Call(api, args) == [api |-> api, args |-> args]

\* --------------------------------------------------------------- GET /
home(r) ==
  /\ pc[r] = "idle"
  /\ kind' = [kind EXCEPT ![r] = "home"]
  /\ response' = [response EXCEPT ![r] = Ok([message |-> "Server is running"])]
  /\ pc' = [pc EXCEPT ![r] = "done"]
  /\ UNCHANGED << config, data, line_items, total_amount, event, connected_account,
                  outbox, result, log, trace >>

\* ------------------------------------------ POST /create-checkout-session
\* the request arrives; line_items = [], total_amount = 0
StartCheckout(r, D) ==
  /\ pc[r] = "idle"
  /\ \E d \in D.checkout :
       /\ data' = [data EXCEPT ![r] = d]
       /\ kind' = [kind EXCEPT ![r] = "checkout"]
       /\ line_items' = [line_items EXCEPT ![r] = <<>>]
       /\ total_amount' = [total_amount EXCEPT ![r] = 0]
       /\ pc' = [pc EXCEPT ![r] = "loop"]
  /\ UNCHANGED << config, event, connected_account, outbox, result, response, log,
                  trace >>

\* one iteration of `for item in data.items`
LoopItem(r) ==
  /\ pc[r] = "loop"
  /\ Len(line_items[r]) < Len(data[r].items)
  /\ LET item == data[r].items[Len(line_items[r]) + 1]
         unit_amount == UnitAmount(item.price)
         quantity == item.quantity
     IN /\ total_amount' = AddToTotal(total_amount, r, unit_amount * quantity)
        /\ line_items' = [line_items EXCEPT ![r] = Append(@, LineItem(item))]
  /\ UNCHANGED << config, pc, kind, data, event, connected_account, outbox, result,
                  response, log, trace >>

\* after the loop: the fee, session_args, and the call to the processor
CreateSession(r) ==
  /\ pc[r] = "loop"
  /\ Len(line_items[r]) = Len(data[r].items)
  /\ LET platform_fee == calculate_platform_fee(total_amount[r])
         session_args == SessionArgs(line_items[r], platform_fee,
                                     data[r].customer_id, config)
     IN outbox' = [outbox EXCEPT
                     ![r] = Append(@, Call("checkout.Session.create", session_args))]
  /\ pc' = [pc EXCEPT ![r] = "await"]
  /\ UNCHANGED << config, kind, data, line_items, total_amount, event,
                  connected_account, result, response, log, trace >>

\* the processor answers: return the session's id and url, or the except clause
CheckoutReturn(r, D) ==
  /\ pc[r] = "await" /\ kind[r] = "checkout"
  /\ \E res \in D.created :
       /\ result' = [result EXCEPT ![r] = res]
       /\ IF res.ok
            THEN /\ response' = [response EXCEPT
                      ![r] = Ok([sessionId |-> res.id, url |-> res.url])]
                 /\ log' = log
            ELSE /\ response' = [response EXCEPT ![r] = BadRequest(ExcOf(res))]
                 /\ log' = [log EXCEPT
                      ![r] = Append(@, <<"Error creating session", Str(ExcOf(res))>>)]
  /\ pc' = [pc EXCEPT ![r] = "done"]
  /\ UNCHANGED << config, kind, data, line_items, total_amount, event,
                  connected_account, outbox, trace >>

\* ------------------------------------------------- GET /checkout-session
StartLookup(r, D) ==
  /\ pc[r] = "idle"
  /\ \E d \in D.lookup :
       /\ data' = [data EXCEPT ![r] = d]
       /\ outbox' = [outbox EXCEPT
            ![r] = Append(@, Call("checkout.Session.retrieve", <<d.sessionId>>))]
  /\ kind' = [kind EXCEPT ![r] = "lookup"]
  /\ pc' = [pc EXCEPT ![r] = "await"]
  /\ UNCHANGED << config, line_items, total_amount, event, connected_account, result,
                  response, log, trace >>

LookupReturn(r, D) ==
  /\ pc[r] = "await" /\ kind[r] = "lookup"
  /\ \E res \in D.retrieved :
       /\ result' = [result EXCEPT ![r] = res]
       /\ response' = [response EXCEPT
            ![r] = IF res.ok THEN Ok([customer_id |-> res.customer])
                   ELSE BadRequest(ExcOf(res))]
  /\ pc' = [pc EXCEPT ![r] = "done"]
  /\ UNCHANGED << config, kind, data, line_items, total_amount, event,
                  connected_account, outbox, log, trace >>

\* --------------------------------------------- POST /create-portal-session
StartPortal(r, D) ==
  /\ pc[r] = "idle"
  /\ \E d \in D.portal :
       /\ data' = [data EXCEPT ![r] = d]
       /\ outbox' = [outbox EXCEPT
            ![r] = Append(@, Call("billing_portal.Session.create",
                                  [ customer   |-> d.customer_id,
                                    return_url |-> <<config.FRONTEND_URL, "/success">> ]))]
  /\ kind' = [kind EXCEPT ![r] = "portal"]
  /\ pc' = [pc EXCEPT ![r] = "await"]
  /\ UNCHANGED << config, line_items, total_amount, event, connected_account, result,
                  response, log, trace >>

PortalReturn(r, D) ==
  /\ pc[r] = "await" /\ kind[r] = "portal"
  /\ \E res \in D.opened :
       /\ result' = [result EXCEPT ![r] = res]
       /\ response' = [response EXCEPT
            ![r] = IF res.ok THEN Ok([url |-> res.url]) ELSE BadRequest(ExcOf(res))]
  /\ pc' = [pc EXCEPT ![r] = "done"]
  /\ UNCHANGED << config, kind, data, line_items, total_amount, event,
                  connected_account, outbox, log, trace >>

\* ------------------------------------------------------------ POST /webhook
\* payload = await request.body(); sig_header; endpoint_secret
StartWebhook(r, D) ==
  /\ pc[r] = "idle"
  /\ \E d \in D.webhook : data' = [data EXCEPT ![r] = d]
  /\ kind' = [kind EXCEPT ![r] = "webhook"]
  /\ trace' = [trace EXCEPT ![r] = <<"Received">>]
  /\ pc' = [pc EXCEPT ![r] = "verify"]
  /\ UNCHANGED << config, line_items, total_amount, event, connected_account, outbox,
                  result, response, log >>

\* the try block around construct_event and its two except clauses
ConstructEvent(r) ==
  /\ pc[r] = "verify"
  /\ LET payload == data[r]
         sig_header == data[r].sig_header
         endpoint_secret == config.STRIPE_WEBHOOK_SECRET
         v == construct_event(payload, sig_header, endpoint_secret)
     IN IF v.exc = None
          THEN /\ event' = [event EXCEPT ![r] = v.event]
               /\ trace' = [trace EXCEPT ![r] = Append(@, "Verified")]
               /\ pc' = [pc EXCEPT ![r] = "classify"]
               /\ UNCHANGED << response, log >>
          ELSE /\ log' = [log EXCEPT
                    ![r] = Append(@, <<"Webhook Error", VerifyErrorDetail(v.exc)>>)]
               /\ response' = [response EXCEPT
                    ![r] = [status |-> 400, body |-> [detail |-> VerifyErrorDetail(v.exc)]]]
               /\ trace' = [trace EXCEPT ![r] = Append(@, "Rejected")]
               /\ pc' = [pc EXCEPT ![r] = "done"]
               /\ UNCHANGED event
  /\ UNCHANGED << config, kind, data, line_items, total_amount, connected_account,
                  outbox, result >>

\* connected_account = event.get("account", "platform") and the banner prints
Classify(r) ==
  /\ pc[r] = "classify"
  /\ LET account == Get(event[r], "account", "platform")
     IN /\ connected_account' = [connected_account EXCEPT ![r] = account]
        /\ log' = [log EXCEPT ![r] = @ \o
                     << <<"====">>,
                        <<"Webhook Event Received">>,
                        <<"Event Type", event[r].type>>,
                        <<"Account ID", account>>,
                        <<"====">> >>]
  /\ trace' = [trace EXCEPT ![r] = Append(@, "Classified")]
  /\ pc' = [pc EXCEPT ![r] = "dispatch"]
  /\ UNCHANGED << config, kind, data, line_items, total_amount, event, outbox, result,
                  response >>

\* the if/elif chain; a KeyError in a branch leaves the handler uncaught
Dispatch(r) ==
  /\ pc[r] = "dispatch"
  /\ LET run == RunBranch(event[r])
     IN /\ log' = [log EXCEPT ![r] = @ \o run.lines]
        /\ IF run.raised
             THEN /\ response' = [response EXCEPT ![r] = ServerError]
                  /\ trace' = [trace EXCEPT ![r] = @ \o <<"Dispatched", "Failed">>]
                  /\ pc' = [pc EXCEPT ![r] = "done"]
             ELSE /\ trace' = [trace EXCEPT ![r] = Append(@, "Dispatched")]
                  /\ pc' = [pc EXCEPT ![r] = "ack"]
                  /\ UNCHANGED response
  /\ UNCHANGED << config, kind, data, line_items, total_amount, event,
                  connected_account, outbox, result >>

\* return {"status": "success"}
Acknowledge(r) ==
  /\ pc[r] = "ack"
  /\ response' = [response EXCEPT ![r] = Ok([status |-> "success"])]
  /\ trace' = [trace EXCEPT ![r] = Append(@, "Acknowledged")]
  /\ pc' = [pc EXCEPT ![r] = "done"]
  /\ UNCHANGED << config, kind, data, line_items, total_amount, event,
                  connected_account, outbox, result, log >>

\* the response is sent and the request's locals are dropped
Finish(r) ==
  /\ pc[r] = "done"
  /\ pc' = [pc EXCEPT ![r] = "idle"]
  /\ kind' = [kind EXCEPT ![r] = "none"]
  /\ data' = [data EXCEPT ![r] = NoData]
  /\ line_items' = [line_items EXCEPT ![r] = <<>>]
  /\ total_amount' = [total_amount EXCEPT ![r] = 0]
  /\ event' = [event EXCEPT ![r] = NoEvent]
  /\ connected_account' = [connected_account EXCEPT ![r] = None]
  /\ outbox' = [outbox EXCEPT ![r] = <<>>]
  /\ result' = [result EXCEPT ![r] = NoResult]
  /\ response' = [response EXCEPT ![r] = NoResponse]
  /\ log' = [log EXCEPT ![r] = <<>>]
  /\ trace' = [trace EXCEPT ![r] = <<>>]
  /\ UNCHANGED config

\* ---------------------------------------------------------- specifications
CreatedResults ==
  { Session("cs_test_1", "https://checkout.stripe.com/c/pay/cs_test_1", None) }
    \cup { Raised(m) : m \in ErrorMessages }

RetrievedResults ==
  { Session("cs_test_1", "https://checkout.stripe.com/c/pay/cs_test_1", c) :
      c \in {None, "cus_1"} }
    \cup { Raised(m) : m \in ErrorMessages }

OpenedResults ==
  { Session("bps_1", "https://billing.stripe.com/p/session/bps_1", None) }
    \cup { Raised(m) : m \in ErrorMessages }

FullDomain ==
  [ checkout  |-> CheckoutRequests,
    lookup    |-> LookupRequests,
    portal    |-> PortalRequests,
    webhook   |-> Deliveries(Events),
    created   |-> CreatedResults,
    retrieved |-> RetrievedResults,
    opened    |-> OpenedResults ]

Item(name, price, quantity, image) ==
  [name |-> name, price |-> price, quantity |-> quantity, image |-> image]

SmallEvents ==
  { [type |-> "transfer.created",
     data |-> [object |-> [k \in {"id", "amount", "destination"} |-> ObjValue(k)]],
     account |-> "acct_zara"],
    [type |-> "charge.succeeded",
     data |-> [object |-> [k \in {"id"} |-> ObjValue(k)]]] }

SmallDomain ==
  [ checkout  |-> { [items |-> <<Item("shirt", 50000, 2, "img_shirt")>>,
                     customer_id |-> None],
                    [items |-> <<Item("coat", 150000, 1, ""), Item("pen", 1999, 1, None)>>,
                     customer_id |-> "cus_1"] },
    lookup    |-> {[sessionId |-> "cs_test_1"]},
    portal    |-> {[customer_id |-> "cus_1"]},
    webhook   |-> { d \in Deliveries(SmallEvents) :
                      d.body # "undecodable" /\ d.sig_header # None
                      /\ (d.body = "unparseable" => d.sig_header = "match") },
    created   |-> { r \in CreatedResults : r.msg # "Invalid request" },
    retrieved |-> { r \in RetrievedResults : r.customer = None /\ r.msg # "Invalid request" },
    opened    |-> { r \in OpenedResults : r.msg # "Invalid request" } ]

Step(r, D) ==
  \/ home(r)
  \/ StartCheckout(r, D)
  \/ LoopItem(r)
  \/ CreateSession(r)
  \/ CheckoutReturn(r, D)
  \/ StartLookup(r, D)
  \/ LookupReturn(r, D)
  \/ StartPortal(r, D)
  \/ PortalReturn(r, D)
  \/ StartWebhook(r, D)
  \/ ConstructEvent(r)
  \/ Classify(r)
  \/ Dispatch(r)
  \/ Acknowledge(r)
  \/ Finish(r)

\* one request at a time, every input
Next == Step(1, FullDomain)

Spec == Init /\ [][Next]_vars

\* NumReq requests at once, interleaved at every step
NextConc == \E r \in Req : Step(r, SmallDomain)

SpecConc == Init /\ [][NextConc]_vars

\* ------------------------------------------------------------------ claims
\* the session request a checkout request has handed to the processor
CheckoutSent(r) == kind[r] = "checkout" /\ Len(outbox[r]) > 0

SentArgs(r) == outbox[r][1].args

SentFee(r) == SentArgs(r).payment_intent_data.application_fee_amount

RECURSIVE SumLines(_, _)
SumLines(lines, i) ==
  IF i > Len(lines) THEN 0
  ELSE lines[i].price_data.unit_amount * lines[i].quantity + SumLines(lines, i + 1)

\* C1: for every non-empty cart whose items all have a price of at least one
\* minor unit and a quantity of at least 1, the platform fee in the session
\* request is strictly less than the cart total in minor units.
C1_FeeBelowTotal ==
  \A r \in Req :
    ( /\ CheckoutSent(r)
      /\ Len(data[r].items) > 0
      /\ \A i \in 1..Len(data[r].items) :
           data[r].items[i].price >= 10 /\ data[r].items[i].quantity >= 1 )
    => SentFee(r) < total_amount[r]

\* C2: the total is the sum over the line items of unit amount times quantity,
\* and the application fee sent is 1000 for a total up to 10000, 1500 for a
\* total above 10000 and up to 20000, and 2000 above 20000, with the transfer
\* destination the configured connected account.
C2_TotalAndTieredFee ==
  \A r \in Req :
    CheckoutSent(r) =>
      /\ Len(SentArgs(r).line_items) = Len(data[r].items)
      /\ total_amount[r] = SumLines(SentArgs(r).line_items, 1)
      /\ (total_amount[r] <= 10000 => SentFee(r) = 1000)
      /\ (total_amount[r] > 10000 /\ total_amount[r] <= 20000 => SentFee(r) = 1500)
      /\ (total_amount[r] > 20000 => SentFee(r) = 2000)
      /\ SentArgs(r).payment_intent_data.transfer_data.destination = "acct_zara"

\* a cart totalling exactly 20000 was sent with the 1500 fee
C2_Witness ==
  \E r \in Req : CheckoutSent(r) /\ total_amount[r] = 20000 /\ SentFee(r) = 1500

\* exactly one of the two customer modes is set in the request sent
ExactlyOneMode(args) ==
  ("customer" \in DOMAIN args) # ("customer_creation" \in DOMAIN args)

\* C3 (as stated): a customerId that is present (not None) is carried in
\* 'customer' with no 'customer_creation'; an absent one sets
\* 'customer_creation' with no 'customer'.
C3_ModeByPresence ==
  \A r \in Req :
    CheckoutSent(r) =>
      /\ ExactlyOneMode(SentArgs(r))
      /\ IF data[r].customer_id # None
           THEN /\ "customer" \in DOMAIN SentArgs(r)
                /\ SentArgs(r).customer = data[r].customer_id
           ELSE /\ "customer_creation" \in DOMAIN SentArgs(r)
                /\ SentArgs(r).customer_creation = "always"

\* C3 (amended): exactly one of the two customer modes is set; a customerId
\* that is present and non-empty is carried in 'customer', and a customerId
\* that is absent or the empty string sets 'customer_creation' instead.
C3_ModeByNonEmptyId ==
  \A r \in Req :
    CheckoutSent(r) =>
      /\ ExactlyOneMode(SentArgs(r))
      /\ IF data[r].customer_id \in {None, ""}
           THEN /\ "customer_creation" \in DOMAIN SentArgs(r)
                /\ SentArgs(r).customer_creation = "always"
           ELSE /\ "customer" \in DOMAIN SentArgs(r)
                /\ SentArgs(r).customer = data[r].customer_id

\* a request with a known customer was sent carrying it
C3_Witness ==
  \E r \in Req :
    /\ CheckoutSent(r)
    /\ data[r].customer_id = "cus_1"
    /\ "customer" \in DOMAIN SentArgs(r)
    /\ "customer_creation" \notin DOMAIN SentArgs(r)

Ack == [status |-> 200, body |-> [status |-> "success"]]

IsAck(resp) == resp = Ack

Verified(r) == kind[r] = "webhook" /\ Len(trace[r]) >= 2 /\ trace[r][2] = "Verified"

\* C4: once verification of a delivery has passed, the delivery ends with the
\* success acknowledgment, whichever branch fires and also when the handler
\* fails on a missing field.
C4_VerifiedEndsAcknowledged ==
  \A r \in Req : (Verified(r) /\ pc[r] = "done") => IsAck(response[r])

\* does the delivery pass verification: judged from the delivery alone
Passes(d) == d.body = "json" /\ d.sig_header = "match"

Rejected(r) ==
  kind[r] = "webhook" /\ pc[r] # "verify" /\ ~Passes(data[r])

\* a rejected delivery: a 400, no event, no handler run, no acknowledgment
RejectedCleanly(r) ==
  /\ pc[r] = "done"
  /\ response[r].status = 400
  /\ DOMAIN response[r].body = {"detail"}
  /\ response[r].body.detail \in {"Invalid payload", "Invalid signature"}
  /\ log[r] = << <<"Webhook Error", response[r].body.detail>> >>
  /\ event[r] = NoEvent
  /\ trace[r] = <<"Received", "Rejected">>

SideEffectLine(type) ==
  CASE type = "checkout.session.completed" -> <<"Checkout Session Completed">>
    [] type = "payment_intent.succeeded"   -> <<"Payment Intent Succeeded">>
    [] type = "charge.succeeded"           -> <<"Charge Succeeded">>
    [] type = "transfer.created"           -> <<"Transfer Created to Connected Account">>
    [] type = "transfer.paid"              -> <<"Transfer Paid">>

Runs(r, type) ==
  Cardinality({ i \in 1..Len(log[r]) : log[r][i] = SideEffectLine(type) })

Dispatched(r) == kind[r] = "webhook" /\ pc[r] \in {"ack", "done"} /\ Verified(r)

C7_ProcessorFailureIs400 ==
  \A r \in Req :
    kind[r] \in {"checkout", "lookup", "portal"} =>
      /\ Len(outbox[r]) <= 1
      /\ (pc[r] = "done" /\ ~result[r].ok) =>
           /\ Len(outbox[r]) = 1
           /\ response[r].status = 400
           /\ DOMAIN response[r].body = {"detail"}
           /\ response[r].body.detail = result[r].msg

\* a portal request the processor refused
C7_Witness ==
  \E r \in Req :
    /\ kind[r] = "portal" /\ pc[r] = "done"
    /\ result[r] = Raised("No such customer")
    /\ response[r].status = 400

\* C8: every delivery follows Received, Verified, Classified, Dispatched,
\* Acknowledged, or Received, Rejected: a finished delivery has taken one of
\* the two paths, and an unfinished one is on a prefix of the first.
C8_OneOfTwoPaths ==
  \A r \in Req :
    kind[r] = "webhook" =>
      LET full == <<"Received", "Verified", "Classified", "Dispatched", "Acknowledged">>
      IN IF pc[r] = "done"
           THEN trace[r] \in {full, <<"Received", "Rejected">>}
           ELSE trace[r] = SubSeq(full, 1, Len(trace[r]))

\* C9: each line item's unit amount is the price (not negative) times 100
\* rounded to the nearest integer, and it is the unit amount summed into the
\* total.
C9_UnitAmountRounded ==
  \A r \in Req :
    CheckoutSent(r) =>
      /\ total_amount[r] = SumLines(SentArgs(r).line_items, 1)
      /\ \A i \in 1..Len(data[r].items) :
           data[r].items[i].price >= 0 =>
             SentArgs(r).line_items[i].price_data.unit_amount
               = RoundUnitAmount(data[r].items[i].price)

\* what a request does when it runs alone: its processor calls ...
RECURSIVE CartTotal(_, _)
CartTotal(items, i) ==
  IF i > Len(items) THEN 0
  ELSE UnitAmount(items[i].price) * items[i].quantity + CartTotal(items, i + 1)

AloneCalls(k, d) ==
  CASE k = "checkout" ->
         << Call("checkout.Session.create",
                 SessionArgs([i \in 1..Len(d.items) |-> LineItem(d.items[i])],
                             calculate_platform_fee(CartTotal(d.items, 1)),
                             d.customer_id, Config0)) >>
    [] k = "lookup" -> << Call("checkout.Session.retrieve", <<d.sessionId>>) >>
    [] k = "portal" ->
         << Call("billing_portal.Session.create",
                 [ customer   |-> d.customer_id,
                   return_url |-> <<Config0.FRONTEND_URL, "/success">> ]) >>
    [] OTHER -> << >>

\* ... and its response, given what the processor answered
AloneResponse(k, d, res) ==
  CASE k = "home" -> Ok([message |-> "Server is running"])
    [] k = "checkout" ->
         IF res.ok THEN Ok([sessionId |-> res.id, url |-> res.url])
         ELSE BadRequest(ExcOf(res))
    [] k = "lookup" ->
         IF res.ok THEN Ok([customer_id |-> res.customer]) ELSE BadRequest(ExcOf(res))
    [] k = "portal" ->
         IF res.ok THEN Ok([url |-> res.url]) ELSE BadRequest(ExcOf(res))
    [] k = "webhook" ->
         LET v == construct_event(d, d.sig_header, Config0.STRIPE_WEBHOOK_SECRET) IN
           IF v.exc # None
             THEN [status |-> 400, body |-> [detail |-> VerifyErrorDetail(v.exc)]]
           ELSE IF RunBranch(v.event).raised THEN ServerError
           ELSE Ok([status |-> "success"])

\* C10: requests share no mutable state: in every interleaving each request's
\* processor call and response are those of the same request run alone, and
\* the process-wide configuration stays as it was set at start.
C10_RequestsIsolated ==
  /\ config = Config0
  /\ \A r \in Req :
       /\ (kind[r] # "none" /\ pc[r] \in {"await", "done"}) =>
            outbox[r] = AloneCalls(kind[r], data[r])
       /\ pc[r] = "done" => response[r] = AloneResponse(kind[r], data[r], result[r])

\* one checkout request has its answer while another is in the middle of its loop
C10_Witness ==
  \E r1, r2 \in Req :
    /\ r1 # r2
    /\ kind[r1] = "checkout" /\ pc[r1] = "done" /\ response[r1].status = 200
    /\ kind[r2] = "checkout" /\ pc[r2] = "loop"
    /\ Len(line_items[r2]) = 1 /\ Len(data[r2].items) = 2
====
